---- MODULE Spec2Model ----
(***************************************************************************)
(* Model of the extension-based file organizer of Python_Automation_YT:   *)
(* src/Part3/file_organizer.py and its copy                               *)
(* src/BackupCode/Part3fileManager.py.                                    *)
(*                                                                         *)
(* A file name is a sequence of one-character strings, so that             *)
(* Path.suffix and str.lower are computed rather than assumed.  The        *)
(* filesystem is the target directory: its regular files (rootFiles) and   *)
(* its subdirectories with the regular files they hold (dirs).  The data   *)
(* of a file is the path it had before the first run, which makes a moved, *)
(* a kept and an overwritten file distinguishable.                         *)
(*                                                                         *)
(* Spec runs the organizer on a bounded target, SpecCase on two spellings  *)
(* of one extension, SpecTables with the category table as configuration.  *)
(* SpecCalc runs the calculator scripts of src/Part2 and src/BackupCode.   *)
(***************************************************************************)
EXTENDS Integers, Sequences, FiniteSets, TLC

(* ---------------------------- bounds ----------------------------------- *)
\* most entries directly under the target directory before the first run
MaxEntries == 4
\* most runs of the script, one after the other, on the same filesystem
MaxRuns == 2

(* ---------------------------- names ------------------------------------ *)
n_a_txt == <<"a", ".", "t", "x", "t">>
n_b_png == <<"b", ".", "p", "n", "g">>
n_c_xyz == <<"c", ".", "x", "y", "z">>
n_p_JPG == <<"p", ".", "J", "P", "G">>
n_Old == <<"O", "l", "d">>
n_Images == <<"I", "m", "a", "g", "e", "s">>
n_Documents == <<"D", "o", "c", "u", "m", "e", "n", "t", "s">>
n_Videos == <<"V", "i", "d", "e", "o", "s">>
n_Scripts == <<"S", "c", "r", "i", "p", "t", "s">>
n_Archives == <<"A", "r", "c", "h", "i", "v", "e", "s">>

\* names a regular file directly under the target may have before the first run
RootFileNames == {n_a_txt, n_b_png, n_c_xyz, n_p_JPG, n_Images}
\* names a subdirectory of the target may have before the first run
DirNames == {n_Old, n_Images, n_Documents}
\* names of the regular files a subdirectory may hold before the first run
SubFileNames == {n_a_txt, n_b_png}

\* the two copies of the script
Variants == {"Part3", "Backup"}
\* argv[1]: absent, a path that does not exist, a regular file, the target directory
Args == {"none", "missing", "file", "dir"}

(* ---------------------------- str.lower, Path.suffix ------------------- *)
UpperLetters == <<"A", "B", "C", "D", "E", "F", "G", "H", "I", "J", "K", "L", "M",
                  "N", "O", "P", "Q", "R", "S", "T", "U", "V", "W", "X", "Y", "Z">>
LowerLetters == <<"a", "b", "c", "d", "e", "f", "g", "h", "i", "j", "k", "l", "m",
                  "n", "o", "p", "q", "r", "s", "t", "u", "v", "w", "x", "y", "z">>

\* str.lower on one character
LowerChar(c) ==
    IF \E i \in 1..Len(UpperLetters) : UpperLetters[i] = c
    THEN LowerLetters[CHOOSE i \in 1..Len(UpperLetters) : UpperLetters[i] = c]
    ELSE c

\* str.lower
Lower(s) == [i \in 1..Len(s) |-> LowerChar(s[i])]

\* str.rfind("."), 1-based; 0 when there is no dot
RFindDot(s) ==
    IF \E i \in 1..Len(s) : s[i] = "."
    THEN CHOOSE i \in 1..Len(s) : s[i] = "." /\ \A j \in (i+1)..Len(s) : s[j] # "."
    ELSE 0

\* Path.suffix: the last dot and what follows it, unless the dot leads or ends the name
Suffix(name) ==
    LET i == RFindDot(name)
    IN  IF 1 < i /\ i < Len(name) THEN SubSeq(name, i, Len(name)) ELSE <<>>

\* a mutant of FileExtension: the extension is compared as written
FileExtensionCaseSensitive(name) == Suffix(name)

\* file_extension = file.suffix.lower()
FileExtension(name) == Lower(Suffix(name))

(* ---------------------------- the category table ----------------------- *)
e_png == <<".", "p", "n", "g">>
e_jpg == <<".", "j", "p", "g">>
e_jpeg == <<".", "j", "p", "e", "g">>
e_pdf == <<".", "p", "d", "f">>
e_docx == <<".", "d", "o", "c", "x">>
e_txt == <<".", "t", "x", "t">>
e_pptx == <<".", "p", "p", "t", "x">>
e_xlsx == <<".", "x", "l", "s", "x">>
e_mp4 == <<".", "m", "p", "4">>
e_mkv == <<".", "m", "k", "v">>
e_py == <<".", "p", "y">>
e_sh == <<".", "s", "h">>
e_zip == <<".", "z", "i", "p">>
e_rar == <<".", "r", "a", "r">>

\* the dict of file_organizer.py, in insertion order
categoriesPart3 ==
    << [folder_name |-> n_Images,    extensions |-> {e_png, e_jpg, e_jpeg}],
       [folder_name |-> n_Documents, extensions |-> {e_pdf, e_docx, e_txt, e_pptx, e_xlsx}],
       [folder_name |-> n_Videos,    extensions |-> {e_mp4, e_mkv}],
       [folder_name |-> n_Scripts,   extensions |-> {e_py, e_sh}],
       [folder_name |-> n_Archives,  extensions |-> {e_zip, e_rar}] >>

\* the dict of Part3fileManager.py, in insertion order
categoriesBackup ==
    << [folder_name |-> n_Images,    extensions |-> {e_png, e_jpg, e_jpeg}],
       [folder_name |-> n_Documents, extensions |-> {e_pdf, e_docx, e_txt}],
       [folder_name |-> n_Videos,    extensions |-> {e_mp4, e_mkv}],
       [folder_name |-> n_Scripts,   extensions |-> {e_py, e_sh}],
       [folder_name |-> n_Archives,  extensions |-> {e_zip, e_rar}] >>

categories(v) == IF v = "Part3" THEN categoriesPart3 ELSE categoriesBackup

(* ---------------------------- state ------------------------------------ *)
VARIABLES
    variant,     \* which copy of the script is run
    rootFiles,   \* regular files directly under the target: name -> data
    dirs,        \* subdirectories of the target: name -> (name -> data)
    pc,          \* where the process is: idle, called, loop, returned, raised, exited
    arg,         \* sys.argv[1] of the process, "none" when absent
    pending,     \* entries of base_path.iterdir() not yet visited
    log,         \* records this process appended to file_organizer.log
    console,     \* lines this process printed
    exit,        \* exit status of the last process, -1 while none has ended
    runs,        \* processes started so far
    rootFiles0,  \* rootFiles when the process started
    dirs0,       \* dirs when the process started
    sorted,      \* an earlier process organized the target and returned normally
    table,       \* the categories dict of organize_files, in insertion order
    visits,      \* how often the outer loop of this process visited each entry
    calc         \* the calculator process: script, arguments, position, outcome

vars == <<variant, rootFiles, dirs, pc, arg, pending, log, console, exit, runs,
          rootFiles0, dirs0, sorted, table, visits, calc>>

NoName == <<>>
\* one record of the log file, or one console line
Rec(kind, file, folder) == [kind |-> kind, file |-> file, folder |-> folder]

\* the data of a file: the directory (NoName for the target itself) and name it started with
Data(dir, name) == <<dir, name>>

(* ---------------------------- filesystem ------------------------------- *)
\* a mutant of PathExists: the existence check is skipped
PathExistsAlways(a) == TRUE

\* base_path.exists()
PathExists(a) == a \in {"file", "dir"}

\* a mutant of ArgMissing: the argument count is not checked
ArgMissingNever(a) == FALSE

\* len(sys.argv) < 2
ArgMissing(a) == a = "none"

\* a mutant of IsDir: directories are not told apart from files
IsDirNever(ds, name) == FALSE

\* file.is_dir()
IsDir(ds, name) == name \in DOMAIN ds

\* a mutant of Mkdir: without exist_ok an existing directory raises as well
MkdirNoExistOk(st, folder_name) ==
    IF folder_name \in DOMAIN st.dirs \cup DOMAIN st.rootFiles
    THEN [st EXCEPT !.raised = TRUE]
    ELSE [st EXCEPT !.dirs = (folder_name :> <<>>) @@ @]

\* target_folder.mkdir(exist_ok=True): FileExistsError when a regular file has the name
Mkdir(st, folder_name) ==
    IF folder_name \in DOMAIN st.dirs THEN st
    ELSE IF folder_name \in DOMAIN st.rootFiles THEN [st EXCEPT !.raised = TRUE]
    ELSE [st EXCEPT !.dirs = (folder_name :> <<>>) @@ @]

\* a mutant of ShutilMove: the file is copied and the original stays
ShutilMoveCopies(st, name, folder_name) ==
    [st EXCEPT !.dirs[folder_name] = (name :> st.rootFiles[name]) @@ @]

\* shutil.move(str(file), str(target_folder / file.name)): a file already at the
\* destination is replaced
ShutilMove(st, name, folder_name) ==
    [st EXCEPT !.rootFiles = [n \in (DOMAIN @) \ {name} |-> @[n]],
               !.dirs[folder_name] = (name :> st.rootFiles[name]) @@ @]

\* logging.info(f"Moved ...") and print(f"... moved to ...")
ReportMoved(st, name, folder_name) ==
    [st EXCEPT !.log = Append(@, Rec("Moved", name, folder_name)),
               !.console = Append(@, Rec("moved", name, folder_name)),
               !.file_moved = TRUE]

\* a mutant of ReportSkipped: nothing is logged for a file that is not moved
ReportSkippedSilent(st, name) == st

\* if not file_moved: logging.info(f"Skipped file: ...")
ReportSkipped(st, name) ==
    IF ~st.file_moved
    THEN [st EXCEPT !.log = Append(@, Rec("Skipped", name, NoName))]
    ELSE st

\* print("File organization completed!"); logging.info("File Organizer Script Completed")
ReportCompleted(st) ==
    [st EXCEPT !.console = Append(@, Rec("completed", NoName, NoName)),
               !.log = Append(@, Rec("Completed", NoName, NoName))]

\* the values one iteration of the outer loop starts from (file_moved = False)
LoopState ==
    [rootFiles |-> rootFiles, dirs |-> dirs, log |-> log, console |-> console,
     file_moved |-> FALSE, raised |-> FALSE]

(* ---------------------------- the inner loop --------------------------- *)
\* file_organizer.py: the skip check sits inside the loop over the categories
RECURSIVE InnerLoopPart3(_, _, _)
InnerLoopPart3(st, name, i) ==
    IF i > Len(table) THEN st
    ELSE LET c == table[i]
         IN  IF FileExtension(name) \in c.extensions
             THEN LET m == Mkdir(st, c.folder_name)
                  IN  IF m.raised THEN m
                      ELSE ReportMoved(ShutilMove(m, name, c.folder_name),
                                       name, c.folder_name)
             ELSE InnerLoopPart3(ReportSkipped(st, name), name, i + 1)

\* a mutant of InnerLoopBackup: the break is missing, the loop goes on after a
\* match, and a second match finds the file gone (FileNotFoundError)
RECURSIVE InnerLoopBackupNoBreak(_, _, _)
InnerLoopBackupNoBreak(st, name, i) ==
    IF i > Len(table) THEN st
    ELSE LET c == table[i]
         IN  IF FileExtension(name) \in c.extensions
             THEN LET m == Mkdir(st, c.folder_name)
                  IN  IF m.raised THEN m
                      ELSE IF name \notin DOMAIN m.rootFiles
                           THEN [m EXCEPT !.raised = TRUE]
                      ELSE InnerLoopBackupNoBreak(
                               ReportMoved(ShutilMove(m, name, c.folder_name),
                                           name, c.folder_name), name, i + 1)
             ELSE InnerLoopBackupNoBreak(st, name, i + 1)

\* Part3fileManager.py: the loop over the categories only looks for a match
RECURSIVE InnerLoopBackup(_, _, _)
InnerLoopBackup(st, name, i) ==
    IF i > Len(table) THEN st
    ELSE LET c == table[i]
         IN  IF FileExtension(name) \in c.extensions
             THEN LET m == Mkdir(st, c.folder_name)
                  IN  IF m.raised THEN m
                      ELSE ReportMoved(ShutilMove(m, name, c.folder_name),
                                       name, c.folder_name)
             ELSE InnerLoopBackup(st, name, i + 1)

\* file_organizer.py: the body of the outer loop for a regular file; the
\* completion message is part of the body
BodyPart3(st, name) ==
    LET r == InnerLoopPart3(st, name, 1)
    IN  IF r.raised THEN r ELSE ReportCompleted(r)

\* Part3fileManager.py: the body of the outer loop for a regular file
BodyBackup(st, name) ==
    LET r == InnerLoopBackup(st, name, 1)
    IN  IF r.raised THEN r ELSE ReportSkipped(r, name)

(* ---------------------------- the outer loop --------------------------- *)
\* a mutant of Remaining: the listing is read again after every iteration
RemainingLive(pend, file, ds) == (pend \ {file}) \cup DOMAIN ds

\* what base_path.iterdir() still has to yield after an iteration: the listing
\* was built by os.listdir before the first iteration, so the directories ds of
\* the target as it is now play no part
Remaining(pend, file, ds) == pend \ {file}

\* one more visit of the entry by the outer loop
Visit(v, file) ==
    IF file \in DOMAIN v THEN [v EXCEPT ![file] = @ + 1] ELSE (file :> 1) @@ v

\* no calculator process
CalcIdle == [pc |-> "idle"]

(* ---------------------------- initial states --------------------------- *)
\* No process has run.  The target holds at most MaxEntries entries; a name is a
\* regular file or a subdirectory, never both.
Init ==
    /\ variant \in Variants
    /\ \E R \in SUBSET RootFileNames, D \in SUBSET DirNames,
          c \in [DirNames -> SUBSET SubFileNames] :
          /\ R \cap D = {}
          /\ Cardinality(R) + Cardinality(D) <= MaxEntries
          /\ rootFiles = [n \in R |-> Data(NoName, n)]
          /\ dirs = [d \in D |-> [n \in c[d] |-> Data(d, n)]]
    /\ pc = "idle"
    /\ arg = "none"
    /\ pending = {}
    /\ log = <<>>
    /\ console = <<>>
    /\ exit = -1
    /\ runs = 0
    /\ rootFiles0 = rootFiles
    /\ dirs0 = dirs
    /\ sorted = FALSE
    /\ table = categories(variant)
    /\ visits = <<>>
    /\ calc = CalcIdle

(* ---------------------------- the entry point -------------------------- *)
\* what starting a process does whatever its arguments: the module-level
\* logging.info("File Organizer Script Started")
StartProcess(a) ==
    /\ pc \in {"idle", "exited"}
    /\ runs < MaxRuns
    /\ runs' = runs + 1
    /\ arg' = a
    /\ sorted' = (sorted \/ (pc = "exited" /\ exit = 0 /\ arg = "dir"))
    /\ rootFiles0' = rootFiles
    /\ dirs0' = dirs
    /\ pending' = {}
    /\ visits' = <<>>
    /\ UNCHANGED <<variant, table, calc, rootFiles, dirs>>

\* main with no positional argument: the usage message and sys.exit(1)
MainUsage ==
    \E a \in Args :
        /\ ArgMissing(a)
        /\ StartProcess(a)
        /\ log' = <<Rec("Started", NoName, NoName)>>
        /\ console' = <<Rec("usage", NoName, NoName)>>
        /\ exit' = 1
        /\ pc' = "exited"

\* main with an argument, up to the call of organize_files
MainCall ==
    \E a \in Args :
        /\ ~ArgMissing(a)
        /\ StartProcess(a)
        /\ log' = <<Rec("Started", NoName, NoName)>>
        /\ console' = <<>>
        /\ exit' = -1
        /\ pc' = "called"

\* organize_files on a path that does not exist: report and return
OrganizeMissing ==
    /\ pc = "called"
    /\ ~PathExists(arg)
    /\ console' = Append(console, Rec("no folder", NoName, NoName))
    /\ log' = Append(log, Rec("Error", NoName, NoName))
    /\ pc' = "returned"
    /\ UNCHANGED <<variant, table, calc, visits, rootFiles, dirs, arg, pending, exit, runs,
                   rootFiles0, dirs0, sorted>>

\* organize_files on a path that exists, up to the first iteration: iterdir
\* lists the directory, and raises when the path is not a directory
OrganizeBegin ==
    /\ pc = "called"
    /\ PathExists(arg)
    /\ console' = Append(console, Rec("organizing", NoName, NoName))
    /\ IF arg = "dir"
       THEN /\ pending' = DOMAIN rootFiles \cup DOMAIN dirs
            /\ pc' = "loop"
       ELSE /\ pending' = {}
            /\ pc' = "raised"
    /\ UNCHANGED <<variant, table, calc, visits, rootFiles, dirs, arg, log, exit, runs,
                   rootFiles0, dirs0, sorted>>

\* one iteration of the outer loop skipping a directory
SkipDirectory ==
    /\ pc = "loop"
    /\ \E file \in pending :
          /\ IsDir(dirs, file)
          /\ pending' = Remaining(pending, file, dirs)
          /\ visits' = Visit(visits, file)
    /\ UNCHANGED <<variant, table, calc, rootFiles, dirs, pc, arg, log, console, exit, runs,
                   rootFiles0, dirs0, sorted>>

\* the effect of one iteration on a regular file, st being what its body left
Iteration(file, st) ==
    /\ rootFiles' = st.rootFiles
    /\ dirs' = st.dirs
    /\ log' = st.log
    /\ console' = st.console
    /\ pending' = Remaining(pending, file, st.dirs)
    /\ visits' = Visit(visits, file)
    /\ pc' = IF st.raised THEN "raised" ELSE "loop"
    /\ UNCHANGED <<variant, table, calc, arg, exit, runs, rootFiles0, dirs0, sorted>>

\* file_organizer.py: one iteration of the outer loop on a regular file
ProcessFilePart3 ==
    /\ pc = "loop"
    /\ variant = "Part3"
    /\ \E file \in pending :
          /\ ~IsDir(dirs, file)
          /\ Iteration(file, BodyPart3(LoopState, file))

\* Part3fileManager.py: one iteration of the outer loop on a regular file
ProcessFileBackup ==
    /\ pc = "loop"
    /\ variant = "Backup"
    /\ \E file \in pending :
          /\ ~IsDir(dirs, file)
          /\ Iteration(file, BodyBackup(LoopState, file))

\* file_organizer.py: the loop is exhausted and organize_files returns
OrganizeEndPart3 ==
    /\ pc = "loop"
    /\ variant = "Part3"
    /\ pending = {}
    /\ pc' = "returned"
    /\ UNCHANGED <<variant, table, calc, visits, rootFiles, dirs, arg, pending, log, console, exit, runs,
                   rootFiles0, dirs0, sorted>>

\* Part3fileManager.py: the loop is exhausted, the completion message, return
OrganizeEndBackup ==
    /\ pc = "loop"
    /\ variant = "Backup"
    /\ pending = {}
    /\ console' = ReportCompleted(LoopState).console
    /\ log' = ReportCompleted(LoopState).log
    /\ pc' = "returned"
    /\ UNCHANGED <<variant, table, calc, visits, rootFiles, dirs, arg, pending, exit, runs,
                   rootFiles0, dirs0, sorted>>

\* main after organize_files returned: the timing line, and the process ends
MainTimeTaken ==
    /\ pc = "returned"
    /\ console' = Append(console, Rec("time taken", NoName, NoName))
    /\ exit' = 0
    /\ pc' = "exited"
    /\ UNCHANGED <<variant, table, calc, visits, rootFiles, dirs, arg, pending, log, runs,
                   rootFiles0, dirs0, sorted>>

\* an exception nothing catches leaves organize_files and main: traceback, status 1
Uncaught ==
    /\ pc = "raised"
    /\ exit' = 1
    /\ pc' = "exited"
    /\ UNCHANGED <<variant, table, calc, visits, rootFiles, dirs, arg, pending, log, console, runs,
                   rootFiles0, dirs0, sorted>>

Next ==
    \/ MainUsage
    \/ MainCall
    \/ OrganizeMissing
    \/ OrganizeBegin
    \/ SkipDirectory
    \/ ProcessFilePart3
    \/ ProcessFileBackup
    \/ OrganizeEndPart3
    \/ OrganizeEndBackup
    \/ MainTimeTaken
    \/ Uncaught

Spec == Init /\ [][Next]_vars


(* ---------------------------- vocabulary of the claims ------------------ *)
\* every name an entry of the target may have
EntryNames == RootFileNames \cup DirNames

\* the first category of the table whose extension list holds the lower-cased
\* extension of the name, NoName when there is none, for each copy of the table
FirstCategory ==
    [v \in Variants |-> [name \in EntryNames |->
        LET hits == {i \in 1..Len(categories(v)) :
                        Lower(Suffix(name)) \in categories(v)[i].extensions}
        IN  IF hits = {} THEN NoName
            ELSE categories(v)[CHOOSE i \in hits : \A j \in hits : i <= j].folder_name]]

\* the extension of the name appears in the category table
Matched(name) == FirstCategory[variant][name] # NoName

\* the category of a matched name
CategoryOf(name) == FirstCategory[variant][name]

\* the names of the table's categories
CategoryNames == {categories(variant)[i].folder_name : i \in 1..Len(categories(variant))}

\* the positions of the log records of one kind, and of one kind about one file
LogOf(kind) == {i \in 1..Len(log) : log[i].kind = kind}
LogOfFile(kind, name) == {i \in LogOf(kind) : log[i].file = name}

\* the regular files the run found directly under the target, matched and not
MatchedFiles == {n \in DOMAIN rootFiles0 : Matched(n)}
UnmatchedFiles == {n \in DOMAIN rootFiles0 : ~Matched(n)}

\* organize_files has run on the target directory and returned
Finished == pc = "returned" /\ arg = "dir"

\* the file is in the folder under its own name, with the data it had at the root
MovedTo(name, folder) ==
    /\ name \in DOMAIN rootFiles0
    /\ name \notin DOMAIN rootFiles
    /\ folder \in DOMAIN dirs
    /\ name \in DOMAIN dirs[folder]
    /\ dirs[folder][name] = rootFiles0[name]

(* ---------------------------- C1 --------------------------------------- *)
\* C1: when organize_files has returned, every regular file that was directly
\* under the target when the run began and whose lower-cased extension is in the
\* category table is at <category>/<name> and no longer at the root.
C1_Completeness ==
    Finished => \A n \in MatchedFiles : MovedTo(n, CategoryOf(n))

\* a finished run that moved a lower-case and an upper-case extension
C1_Witness ==
    /\ Finished
    /\ {n_a_txt, n_p_JPG} \subseteq MatchedFiles
    /\ MovedTo(n_a_txt, n_Documents)
    /\ MovedTo(n_p_JPG, n_Images)

(* ---------------------------- C2 --------------------------------------- *)
\* C2: a regular file whose extension is in no category stays at its path with
\* its data throughout the run, every directory the run creates is the category
\* of some matched file, and when organize_files has returned the log holds a
\* "Skipped" record naming the file.
C2_UnmatchedUntouched ==
    /\ \A n \in UnmatchedFiles :
          /\ n \in DOMAIN rootFiles
          /\ rootFiles[n] = rootFiles0[n]
          /\ Finished => LogOfFile("Skipped", n) # {}
    /\ \A d \in (DOMAIN dirs) \ (DOMAIN dirs0) :
          \E m \in MatchedFiles : CategoryOf(m) = d

\* a finished run that skipped c.xyz and moved something else
C2_Witness ==
    /\ Finished
    /\ n_c_xyz \in DOMAIN rootFiles
    /\ LogOfFile("Skipped", n_c_xyz) # {}
    /\ LogOf("Moved") # {}

(* ---------------------------- C3 --------------------------------------- *)
\* C3: called with a path that does not exist, organize_files prints the error,
\* logs it, returns without raising and leaves every file and directory as it was.
C3_MissingDirectory ==
    (arg = "missing" /\ pc # "called") =>
        /\ pc \in {"returned", "exited"}
        /\ \E i \in 1..Len(console) : console[i].kind = "no folder"
        /\ LogOf("Error") # {}
        /\ LogOf("Moved") = {}
        /\ rootFiles = rootFiles0
        /\ dirs = dirs0

\* organize_files returned from a missing path while the filesystem holds files
C3_Witness ==
    /\ arg = "missing"
    /\ pc = "returned"
    /\ MatchedFiles # {}
    /\ DOMAIN dirs # {}

C5_SecondRunIdempotent ==
    (sorted /\ arg = "dir" /\ pc # "idle") =>
        /\ rootFiles = rootFiles0
        /\ dirs = dirs0
        /\ LogOf("Moved") = {}
        /\ pc # "raised"

\* a second run returned, with files moved by the first and unmatched files left
C5_Witness ==
    /\ sorted
    /\ Finished
    /\ DOMAIN rootFiles # {}
    /\ \E d \in DOMAIN dirs : \E n \in DOMAIN dirs[d] : dirs[d][n] = Data(NoName, n)

\* a second run returned on a target with no file left at the root
C5_WitnessNoneLeft ==
    /\ sorted
    /\ Finished
    /\ DOMAIN rootFiles = {}
    /\ \E d \in DOMAIN dirs : \E n \in DOMAIN dirs[d] : dirs[d][n] = Data(NoName, n)

(* ---------------------------- C6 --------------------------------------- *)
\* the scenario: a.txt, b.png, c.xyz and an empty Old/ directly under the target
Scenario ==
    /\ DOMAIN rootFiles0 = {n_a_txt, n_b_png, n_c_xyz}
    /\ DOMAIN dirs0 = {n_Old}
    /\ dirs0[n_Old] = <<>>

\* C6: when organize_files has returned, the log holds as many "Moved" records
\* as there were matched files and as many "Skipped" records as there were
\* unmatched files; in the scenario that is two "Moved" and one "Skipped".
C6_LogCounts ==
    Finished =>
        /\ Cardinality(LogOf("Moved")) = Cardinality(MatchedFiles)
        /\ Cardinality(LogOf("Skipped")) = Cardinality(UnmatchedFiles)
        /\ Scenario => /\ Cardinality(LogOf("Moved")) = 2
                       /\ Cardinality(LogOf("Skipped")) = 1

(* ---------------------------- C7 --------------------------------------- *)
\* C7: no regular file has more than one "Moved" or "Skipped" record, so none is
\* logged both as skipped and as moved, and when organize_files has returned each
\* regular file has exactly one.
C7_OneRecordPerFile ==
    \A n \in DOMAIN rootFiles0 :
        LET records == LogOfFile("Moved", n) \cup LogOfFile("Skipped", n)
        IN  /\ Cardinality(records) <= 1
            /\ Finished => Cardinality(records) = 1

(* ---------------------------- C8 --------------------------------------- *)
\* C8: when organize_files has returned from an existing directory, the log
\* holds exactly one "Completed" record and it is the last record; the same for
\* the console line.
C8_CompletionOnceAtEnd ==
    Finished =>
        /\ LogOf("Completed") = {Len(log)}
        /\ {i \in 1..Len(console) : console[i].kind = "completed"} = {Len(console)}

(* ---------------------------- C9 --------------------------------------- *)
\* C9: a process started with a target path that does not exist ends with a
\* non-zero exit status.
C9_MissingDirectoryExitStatus ==
    (pc = "exited" /\ arg = "missing") => exit # 0

(* ---------------------------- C10 -------------------------------------- *)
\* C10: a process started with no positional argument prints the usage message
\* and nothing else, ends with a non-zero exit status, never enters
\* organize_files, and changes no file and no directory.
C10_MissingArgument ==
    (arg = "none" /\ runs > 0) =>
        /\ pc = "exited"
        /\ exit # 0
        /\ console = <<Rec("usage", NoName, NoName)>>
        /\ log = <<Rec("Started", NoName, NoName)>>
        /\ rootFiles = rootFiles0
        /\ dirs = dirs0

\* a process without argument has ended on a target that holds files to move
C10_Witness ==
    /\ arg = "none"
    /\ pc = "exited"
    /\ runs > 0
    /\ MatchedFiles # {}

(* ---------------------------- C11 -------------------------------------- *)
\* the console holds a line naming the file
ConsoleNames(name) == \E j \in 1..Len(console) : console[j].file = name

\* C11: every outcome has a console line: each file logged as moved, each file
\* logged as skipped and, when organize_files has returned, each unmatched file
\* is named by a console line, and a logged missing-directory error has its
\* console line.
C11_ConsoleSurfacing ==
    /\ \A i \in LogOf("Moved") \cup LogOf("Skipped") : ConsoleNames(log[i].file)
    /\ Finished => \A n \in UnmatchedFiles : ConsoleNames(n)
    /\ LogOf("Error") # {} => \E j \in 1..Len(console) : console[j].kind = "no folder"

(* ---------------------------- C12 -------------------------------------- *)
\* the upper-case letter of a lower-case letter, any other character as it is
UpperChar(c) ==
    IF \E i \in 1..Len(LowerLetters) : LowerLetters[i] = c
    THEN UpperLetters[CHOOSE i \in 1..Len(LowerLetters) : LowerLetters[i] = c]
    ELSE c

\* every way of writing a lower-case extension in upper- and lower-case letters
RECURSIVE CaseVariants(_)
CaseVariants(e) ==
    IF e = <<>> THEN {<<>>}
    ELSE {<<c>> \o t : c \in {Head(e), UpperChar(Head(e))}, t \in CaseVariants(Tail(e))}

\* the extensions of a table
TableExtensions(t) == UNION {t[i].extensions : i \in 1..Len(t)}

n_p_jpg == <<"p", ".", "j", "p", "g">>

\* The target holds two regular files p<ext> whose extensions are two spellings
\* of one extension of the table, and nothing else.
InitCase ==
    /\ variant \in Variants
    /\ table = categories(variant)
    /\ \E e \in TableExtensions(table) :
          \E x \in CaseVariants(e), y \in CaseVariants(e) :
              /\ x # y
              /\ rootFiles = [n \in {<<"p">> \o x, <<"p">> \o y} |-> Data(NoName, n)]
    /\ dirs = <<>>
    /\ pc = "idle"
    /\ arg = "none"
    /\ pending = {}
    /\ log = <<>>
    /\ console = <<>>
    /\ exit = -1
    /\ runs = 0
    /\ rootFiles0 = rootFiles
    /\ dirs0 = dirs
    /\ sorted = FALSE
    /\ visits = <<>>
    /\ calc = CalcIdle

\* runs of the organizer on two files that differ in the case of the extension
SpecCase == InitCase /\ [][Next]_vars

\* the name up to its extension
Stem(name) == SubSeq(name, 1, Len(name) - Len(Suffix(name)))

\* the two names differ only in the letter case of their extensions
SameButCase(n1, n2) ==
    /\ n1 # n2
    /\ Stem(n1) = Stem(n2)
    /\ Lower(Suffix(n1)) = Lower(Suffix(n2))

\* C12: when organize_files has returned, two files whose names differ only in
\* the letter case of an extension of the table are in the same category folder,
\* the one the table gives the lower-case extension.
C12_CaseInsensitive ==
    Finished =>
        \A n1 \in DOMAIN rootFiles0, n2 \in DOMAIN rootFiles0 :
            SameButCase(n1, n2) =>
                \E i \in 1..Len(table) :
                    /\ Lower(Suffix(n1)) \in table[i].extensions
                    /\ MovedTo(n1, table[i].folder_name)
                    /\ MovedTo(n2, table[i].folder_name)

\* p.JPG and p.jpg were at the root and are both in Images
C12_Witness ==
    /\ Finished
    /\ DOMAIN rootFiles0 = {n_p_JPG, n_p_jpg}
    /\ MovedTo(n_p_JPG, n_Images)
    /\ MovedTo(n_p_jpg, n_Images)

(* ---------------------------- C13 -------------------------------------- *)
\* C13: a category subdirectory is under the target only if it was there when
\* the run began or a regular file of the root matched that category, and an
\* exception in a run on the target is never due to a folder that is already
\* present: it comes with a regular file that holds the name of the category of
\* a matched file.
C13_LazyFolders ==
    /\ \A d \in CategoryNames :
          d \in DOMAIN dirs =>
              \/ d \in DOMAIN dirs0
              \/ \E m \in MatchedFiles : CategoryOf(m) = d
    /\ (arg = "dir" /\ pc = "raised") =>
          \E m \in MatchedFiles : CategoryOf(m) \in DOMAIN rootFiles

\* a finished run that moved a file into a folder that was there, created the
\* folder of another and left the other categories without a folder
C13_Witness ==
    /\ Finished
    /\ n_Documents \in DOMAIN dirs0
    /\ MovedTo(n_a_txt, n_Documents)
    /\ n_Images \notin DOMAIN dirs0
    /\ MovedTo(n_b_png, n_Images)
    /\ MovedTo(n_p_JPG, n_Images)
    /\ DOMAIN dirs \cap {n_Videos, n_Scripts, n_Archives} = {}

(* ---------------------------- C14 -------------------------------------- *)
\* the table with one more extension in the list of its i-th category
WithExtension(t, i, e) == [t EXCEPT ![i].extensions = @ \cup {e}]

\* tables supplied as configuration: the table of the script, and the table with
\* .txt also under Images (before Documents) or .png also under Documents
\* (after Images)
Tables(v) ==
    {categories(v), WithExtension(categories(v), 1, e_txt),
     WithExtension(categories(v), 2, e_png)}

\* The loop of organize_files over a table that may list an extension twice; the
\* target holds at most MaxEntries regular files and empty category folders.
InitTables ==
    /\ variant \in Variants
    /\ table \in Tables(variant)
    /\ \E R \in SUBSET (RootFileNames \ {n_Images}), D \in SUBSET {n_Images, n_Documents} :
          /\ Cardinality(R) + Cardinality(D) <= MaxEntries
          /\ rootFiles = [n \in R |-> Data(NoName, n)]
          /\ dirs = [d \in D |-> <<>>]
    /\ pc = "idle"
    /\ arg = "none"
    /\ pending = {}
    /\ log = <<>>
    /\ console = <<>>
    /\ exit = -1
    /\ runs = 0
    /\ rootFiles0 = rootFiles
    /\ dirs0 = dirs
    /\ sorted = FALSE
    /\ visits = <<>>
    /\ calc = CalcIdle

\* runs of the organizer with the table as configuration
SpecTables == InitTables /\ [][Next]_vars

\* the positions of the table in use that list the lower-cased extension
TableHits(name) ==
    {i \in 1..Len(table) : Lower(Suffix(name)) \in table[i].extensions}

\* the first of them
FirstHit(name) == CHOOSE i \in TableHits(name) : \A j \in TableHits(name) : i <= j

\* C14: whatever the table, a file has at most one "Moved" record in a run, the
\* record names the first category of the table that lists its extension and the
\* file is in that folder; no run on the target raises, and when organize_files
\* has returned every file some category lists is in the folder of the first.
C14_FirstMatchWins ==
    /\ \A n \in DOMAIN rootFiles0 :
          /\ Cardinality(LogOfFile("Moved", n)) <= 1
          /\ \A i \in LogOfFile("Moved", n) :
                /\ TableHits(n) # {}
                /\ log[i].folder = table[FirstHit(n)].folder_name
                /\ MovedTo(n, table[FirstHit(n)].folder_name)
          /\ (Finished /\ TableHits(n) # {}) => MovedTo(n, table[FirstHit(n)].folder_name)
    /\ arg = "dir" => pc # "raised"

\* .txt is listed under Images and under Documents, and a.txt went to Images
C14_Witness ==
    /\ Finished
    /\ e_txt \in table[1].extensions \cap table[2].extensions
    /\ MovedTo(n_a_txt, n_Images)
    /\ n_Documents \notin DOMAIN dirs

(* ---------------------------- C15 -------------------------------------- *)
\* the entries the target held when the process started
Entries0 == DOMAIN rootFiles0 \cup DOMAIN dirs0

\* C15: the outer loop visits only entries the target held when the pass began,
\* each at most once and, when organize_files has returned, each exactly once; a
\* directory created during the pass is never yielded; every "Moved" or
\* "Skipped" record is about a regular file that was at the root, and no file
\* has two "Moved" records.
C15_VisitedOnce ==
    /\ DOMAIN visits \subseteq Entries0
    /\ pending \subseteq Entries0
    /\ \A n \in DOMAIN visits : visits[n] = 1 /\ n \notin pending
    /\ Finished => DOMAIN visits = Entries0
    /\ \A i \in LogOf("Moved") \cup LogOf("Skipped") : log[i].file \in DOMAIN rootFiles0
    /\ \A n \in DOMAIN rootFiles0 : Cardinality(LogOfFile("Moved", n)) <= 1

\* a finished pass that created a category folder and visited files and a directory
C15_Witness ==
    /\ Finished
    /\ n_Old \in DOMAIN visits
    /\ n_c_xyz \in DOMAIN visits
    /\ MovedTo(n_b_png, n_Images)
    /\ n_Images \notin Entries0
    /\ n_Images \notin DOMAIN visits

(* ---------------------------- C16 -------------------------------------- *)
\* C16: called with a path that exists and is no directory, organize_files ends
\* as for a missing path: nothing is raised, the error is printed and logged,
\* and no file or directory changes.
C16_TargetNotADirectory ==
    (arg = "file" /\ pc # "called") =>
        /\ pc \in {"returned", "exited"}
        /\ \E i \in 1..Len(console) : console[i].kind = "no folder"
        /\ LogOf("Error") # {}
        /\ rootFiles = rootFiles0
        /\ dirs = dirs0

(* ---------------------------- C17 -------------------------------------- *)
\* C17: a file that cannot be moved never aborts the batch: a run on the target
\* raises nothing, and when its process has ended every entry has been visited.
C17_PartialFailureTolerated ==
    arg = "dir" =>
        /\ pc # "raised"
        /\ pc = "exited" => DOMAIN visits = Entries0

(* ---------------------------- C18 -------------------------------------- *)
\* the data is held under the name by a regular file of the root or of a
\* subdirectory
Held(name, data) ==
    \/ name \in DOMAIN rootFiles /\ rootFiles[name] = data
    \/ \E d \in DOMAIN dirs : name \in DOMAIN dirs[d] /\ dirs[d][name] = data

\* C18: every regular file that was at the root or in a subdirectory when the
\* process started still exists under its name, at the root or in a
\* subdirectory: a run deletes and overwrites nothing.
C18_FilesConserved ==
    /\ \A n \in DOMAIN rootFiles0 : Held(n, rootFiles0[n])
    /\ \A d \in DOMAIN dirs0 : \A n \in DOMAIN dirs0[d] : Held(n, dirs0[d][n])

(* ---------------------------- the calculators -------------------------- *)
\* largest absolute value of an operand typed on the command line
MaxOperand == 2

\* the calculator scripts: Part2/sys.py, Part2/argparser.py,
\* BackupCode/getOpt.py, BackupCode/sysArg.py
Scripts == {"sys", "argparse", "getopt", "sysArg"}
\* the operands typed, all of them spellings of integers
Operands == (0 - MaxOperand)..MaxOperand
\* the operations typed; "pow" is none of the four
Operations == {"add", "sub", "mul", "div", "pow"}

Abs(x) == IF x < 0 THEN 0 - x ELSE x

RECURSIVE Gcd(_, _)
Gcd(a, b) == IF b = 0 THEN a ELSE Gcd(b, a % b)

\* the number n/d, d # 0, in lowest terms with a positive denominator
Rat(n, d) ==
    LET g == Gcd(Abs(n), Abs(d))
        s == IF d < 0 THEN 0 - 1 ELSE 1
    IN  <<(s * n) \div g, (s * d) \div g>>

\* the value of result after the if/elif chain, for an operation of the four
\* and, for div, a divisor that is not zero
Arith(op, a, b) ==
    CASE op = "add" -> Rat(a + b, 1)
      [] op = "sub" -> Rat(a - b, 1)
      [] op = "mul" -> Rat(a * b, 1)
      [] op = "div" -> Rat(a, b)

\* what a script printed last and the status it ended with
Out(kind, msg, value, status) ==
    [kind |-> kind, msg |-> msg, value |-> value, status |-> status]

NoValue == <<0, 0>>

\* Part2/sys.py: int operands, no check of the divisor (ZeroDivisionError)
RunSysPy(op, a, b) ==
    IF op \notin {"add", "sub", "mul", "div"}
    THEN Out("error", "Invalid operation", NoValue, 1)
    ELSE IF op = "div" /\ b = 0
    THEN Out("fault", "ZeroDivisionError", NoValue, 1)
    ELSE Out("result", "Result", Arith(op, a, b), 0)

\* Part2/argparser.py: choices rejects another operation (status 2); a zero
\* divisor is reported and main returns
RunArgparserPy(op, a, b) ==
    IF op \notin {"add", "sub", "mul", "div"}
    THEN Out("error", "invalid choice", NoValue, 2)
    ELSE IF op = "div" /\ b = 0
    THEN Out("error", "Cannot divide by zero", NoValue, 0)
    ELSE Out("result", "Result", Arith(op, a, b), 0)

\* BackupCode/getOpt.py, from the conversion on
RunGetOptPy(op, a, b) ==
    IF op \notin {"add", "sub", "mul", "div"}
    THEN Out("error", "operation must be: add, sub, mul, div", NoValue, 1)
    ELSE IF op = "div" /\ b = 0
    THEN Out("error", "Cannot divide by zero", NoValue, 1)
    ELSE Out("result", "Result", Arith(op, a, b), 0)

\* BackupCode/sysArg.py, from the conversion on
RunSysArgPy(op, a, b) ==
    IF op \notin {"add", "sub", "mul", "div"}
    THEN Out("error", "operation must be: add, sub, mul, div", NoValue, 1)
    ELSE IF op = "div" /\ b = 0
    THEN Out("error", "Cannot divide by zero", NoValue, 1)
    ELSE Out("result", "Result", Arith(op, a, b), 0)

\* A calculator script has been started with two operands and an operation; no
\* organizer process runs.
InitCalc ==
    /\ calc \in [pc : {"start"}, script : Scripts, num1 : Operands, num2 : Operands,
                 op : Operations, out : {Out("none", "", NoValue, -1)}]
    /\ variant = "Part3"
    /\ table = categories(variant)
    /\ rootFiles = <<>>
    /\ dirs = <<>>
    /\ pc = "idle"
    /\ arg = "none"
    /\ pending = {}
    /\ log = <<>>
    /\ console = <<>>
    /\ exit = -1
    /\ runs = 0
    /\ rootFiles0 = rootFiles
    /\ dirs0 = dirs
    /\ sorted = FALSE
    /\ visits = <<>>

\* a script runs from its first line to its end
Ran(out) ==
    /\ calc.pc = "start"
    /\ calc' = [calc EXCEPT !.pc = "done", !.out = out]
    /\ UNCHANGED <<variant, rootFiles, dirs, pc, arg, pending, log, console, exit,
                   runs, rootFiles0, dirs0, sorted, table, visits>>

SysPy ==
    /\ calc.script = "sys"
    /\ Ran(RunSysPy(calc.op, calc.num1, calc.num2))

ArgparserPy ==
    /\ calc.script = "argparse"
    /\ Ran(RunArgparserPy(calc.op, calc.num1, calc.num2))

GetOptPy ==
    /\ calc.script = "getopt"
    /\ Ran(RunGetOptPy(calc.op, calc.num1, calc.num2))

SysArgPy ==
    /\ calc.script = "sysArg"
    /\ Ran(RunSysArgPy(calc.op, calc.num1, calc.num2))

NextCalc ==
    \/ SysPy
    \/ ArgparserPy
    \/ GetOptPy
    \/ SysArgPy

SpecCalc == InitCalc /\ [][NextCalc]_vars

(* ---------------------------- C19 -------------------------------------- *)
\* the number the operation yields, as a fraction in lowest terms
Expected(op, a, b) ==
    IF op = "add" THEN <<a + b, 1>>
    ELSE IF op = "sub" THEN <<a - b, 1>>
    ELSE IF op = "mul" THEN <<a * b, 1>>
    ELSE CHOOSE q \in ((0 - MaxOperand)..MaxOperand) \X (1..MaxOperand) :
            /\ q[1] * b = a * q[2]
            /\ \A r \in ((0 - MaxOperand)..MaxOperand) \X (1..MaxOperand) :
                  r[1] * b = a * r[2] => q[2] <= r[2]

\* C19: whichever calculator script ran, div by zero ended in the reported error
\* "Cannot divide by zero", with no result line and no unhandled fault, and a
\* result line carries the number the operation yields, the same for every
\* script.
C19_DivisionByZero ==
    calc.pc = "done" =>
        /\ (calc.op = "div" /\ calc.num2 = 0) =>
              /\ calc.out.kind = "error"
              /\ calc.out.msg = "Cannot divide by zero"
        /\ calc.out.kind = "result" =>
              calc.out.value = Expected(calc.op, calc.num1, calc.num2)

====
